---------------------------- MODULE Spec2Model ----------------------------
(***************************************************************************)
(* PS/2 keyboard to parallel-bus bridge (SpareTimeGizmos PS2APU).          *)
(*                                                                         *)
(* The model has two execution contexts.  The interrupt context holds the  *)
(* KEYBOARD_BIT handler (INT0, one run per falling clock edge) and the     *)
(* KEYBOARD_TIMEOUT handler (timer 0).  Both run at the 8051's default     *)
(* priority, so a handler runs to completion before anything else does:    *)
(* each is one action.  The normal context is main -> InitializeKeyboard   *)
(* -> SendHost(version) -> ConvertKeys, which polls WaitKey/GetKey; it is  *)
(* a program counter that advances one shared-memory access at a time, so  *)
(* that the handlers interleave with it wherever the hardware lets them.   *)
(***************************************************************************)
EXTENDS Integers, Sequences, FiniteSets

---------------------------------------------------------------------------
(* Program constants *)

KEYBUFLEN == 16

KEYBOARD_ERROR_BITS == 240

STATE_ERROR == 11

\* bit numbers inside _g_bKeyFlags (bit addresses 0x00..0x07 of byte 0x20)
m_fKeyBusy == 0

m_fKeyOverflow == 4

m_fKeyParity == 5

m_fKeyFraming == 6

m_fKeyTimeout == 7

---------------------------------------------------------------------------
(* Bounds of the model *)

\* frames the keyboard sends in the general specification
MaxFrames == 2

\* frames the keyboard sends in the specification of well-formed traffic
MaxGoodFrames == 17

\* clock edges in the specification whose data line is arbitrary
MaxEdges == 12

---------------------------------------------------------------------------
(* Byte arithmetic of the 8051 *)

Pow2(n) ==
    IF n = 0 THEN 1 ELSE IF n = 1 THEN 2 ELSE IF n = 2 THEN 4
    ELSE IF n = 3 THEN 8 ELSE IF n = 4 THEN 16 ELSE IF n = 5 THEN 32
    ELSE IF n = 6 THEN 64 ELSE IF n = 7 THEN 128 ELSE 256

\* bit n of byte b
BitOf(b, n) == (b \div Pow2(n)) % 2

\* JB / JNB on a bit of a byte
TestBit(b, n) == BitOf(b, n) = 1

\* SETB
SetBit(b, n) == IF TestBit(b, n) THEN b ELSE b + Pow2(n)

\* CLR
ClrBit(b, n) == IF TestBit(b, n) THEN b - Pow2(n) ELSE b

\* ANL / the C operator & on two bytes
BitAnd(a, b) ==
    LET bit(n) == IF TestBit(a, n) /\ TestBit(b, n) THEN Pow2(n) ELSE 0
    IN  bit(0) + bit(1) + bit(2) + bit(3) + bit(4) + bit(5) + bit(6) + bit(7)

\* number of 1 bits of a byte
Ones(b) ==
    BitOf(b, 0) + BitOf(b, 1) + BitOf(b, 2) + BitOf(b, 3)
    + BitOf(b, 4) + BitOf(b, 5) + BitOf(b, 6) + BitOf(b, 7)

\* PSW.0, the parity flag P: 1 when the accumulator holds an odd number of 1s
PSW_P(a) == Ones(a) % 2

\* RR A: the byte turns one place to the right, the carry stays out
RRC_WithoutCarry(a, c) == (a % 2) * 128 + (a \div 2)

\* RRC A: the carry enters at bit 7, the byte moves one place to the right
RRC(a, c) == c * 128 + (a \div 2)

\* INC on a byte
INC(a) == (a + 1) % 256

---------------------------------------------------------------------------
VARIABLES
    \* keyboard.asm, internal RAM
    m_bKeyState,        \* receiver state, 0..11
    m_bKeyData,         \* data accumulator
    m_bKeyGet,          \* "get" cursor
    m_bKeyPut,          \* "put" cursor
    m_abKeyBuffer,      \* circular buffer, index 0..KEYBUFLEN-1
    g_bKeyFlags,        \* flag byte
    \* 8051 special function bits
    TR0,                \* timer 0 run control
    TF0,                \* timer 0 overflow flag: a timer interrupt waits
    ET0,                \* timer 0 interrupt enable
    EX0,                \* INT0 interrupt enable
    EA,                 \* global interrupt enable
    IE0,                \* INT0 edge flag: a falling clock edge waits for service
    KEYBOARD_DATA,      \* level of the data pin (P3.7)
    \* normal context
    pc,                 \* position of the normal context
    initRet,            \* where InitializeKeyboard returns to
    sendRet,            \* where SendHost returns to
    nKey,               \* GetKey: accumulator / returned value (-1 = empty)
    ch,                 \* SendHost's argument
    P1,                 \* data bus to the host
    SET_KEY_DATA_RDY,   \* strobe output (P3.4)
    KEY_DATA_RDY,       \* ready flip-flop as read on P3.3
    m_bShiftFlags,      \* host.c: modifier flags
    ckPos,              \* ConvertKeys: the WaitKey call it is waiting in
    pauseIdx,           \* ConvertKeys: bytes of the Pause/Break tail matched
    \* the keyboard
    kbPos,              \* edges sent of the current frame, 0 = between frames
    kbKind,             \* kind of the current frame
    nFrames,            \* frames begun so far
    nEdges,             \* clock edges sent so far
    script,             \* scan codes handed straight to the decoder
    nFed,               \* bytes of the script WaitKey has returned
    shift0,             \* m_bShiftFlags when the script began
    rom,                \* -1: the US table is linked; else the byte the
                        \* linked table holds in column 0 of every row
    JP4,                \* the level jumper JP4 puts on P3.0; -1: the jumper
                        \* may be moved at any time
    \* history
    got,                \* bytes GetKey has returned, oldest first
    overrun,            \* a frame has completed with KEYBUFLEN-1 bytes unread
    frameStored,        \* PutKey has stored a byte since the last start bit
    stored,             \* bytes PutKey has stored, oldest first
    bits,               \* data levels sampled since the last start bit
    asciiKey,           \* the code the last pass of ConvertKeys gave DoASCII,
                        \* -1 when it did not call it
    resolved,           \* arguments of the calls of SendHost, oldest first
    sent                \* bytes on P1 when the strobe was asserted, in order

rxvars == <<m_bKeyState, m_bKeyData, m_bKeyPut, m_abKeyBuffer, g_bKeyFlags,
            TR0, TF0>>

sfrvars == <<ET0, EX0, EA>>

mainvars == <<pc, initRet, sendRet, nKey, ch, P1, SET_KEY_DATA_RDY,
              m_bShiftFlags, ckPos, pauseIdx>>

feedvars == <<script, nFed, shift0, rom, JP4>>

kbvars == <<kbPos, kbKind, nFrames, nEdges, feedvars>>

histvars == <<got, overrun, frameStored, stored, bits, asciiKey, resolved, sent>>

decvars == <<m_bShiftFlags, ckPos, pauseIdx>>

vars == <<m_bKeyState, m_bKeyData, m_bKeyGet, m_bKeyPut, m_abKeyBuffer,
          g_bKeyFlags, TR0, TF0, ET0, EX0, EA, IE0, KEYBOARD_DATA, pc, initRet,
          sendRet, nKey, ch, P1, SET_KEY_DATA_RDY, KEY_DATA_RDY,
          m_bShiftFlags, ckPos, pauseIdx, kbPos, kbKind, nFrames, nEdges,
          script, nFed, shift0, rom, JP4, got, overrun, frameStored, stored, bits,
          asciiKey,
          resolved, sent>>


---------------------------------------------------------------------------
(* The interrupt handlers of keyboard.asm, as functions of the receiver's   *)
(* memory r = [state, data, put, buf, flags, tr0, tf0] and of the level d of *)
(* the data pin that the handler samples.                                   *)

Rx ==
    [state  |-> m_bKeyState,
     data   |-> m_bKeyData,
     put    |-> m_bKeyPut,
     buf    |-> m_abKeyBuffer,
     flags  |-> g_bKeyFlags,
     tr0    |-> TR0,
     tf0    |-> TF0]

\* CJNE A,m_bKeyPut,SAVEIT: A holds the incremented put cursor
PutKeyRoom(a, r) == a # r.put

\* PutKey ... SAVEIT / NOROOM
PutKey(r) ==
    LET a == BitAnd(INC(r.put), KEYBUFLEN - 1)
    IN  IF PutKeyRoom(a, r)
        THEN [r EXCEPT !.put = a, !.buf[a] = r.data]
        ELSE [r EXCEPT !.flags = SetBit(@, m_fKeyOverflow)]

\* KEYNXT: INC m_bKeyState
KEYNXT(r) == [r EXCEPT !.state = INC(@)]

\* KEYRET: restore the context and return
KEYRET(r) == r

\* FRAERR
FRAERR(r) ==
    KEYRET([r EXCEPT !.flags = SetBit(@, m_fKeyFraming), !.state = STATE_ERROR])

\* a START that leaves the timer alone
START_Unarmed(r, d) ==
    IF d = 1
    THEN FRAERR(r)
    ELSE KEYNXT([r EXCEPT !.flags = SetBit(@, m_fKeyBusy), !.data = 0])

\* START (state 0)
START(r, d) ==
    IF d = 1
    THEN FRAERR(r)
    ELSE KEYNXT([r EXCEPT !.flags = SetBit(@, m_fKeyBusy),
                          !.data = 0,
                          !.tf0 = FALSE,
                          !.tr0 = TRUE])

\* a receiver that shifts the data bits in from the other end
SDATA_MsbFirst(r, d) == KEYNXT([r EXCEPT !.data = (2 * @ + d) % 256])

\* SDATA (states 1..8)
SDATA(r, d) == KEYNXT([r EXCEPT !.data = RRC(@, d)])

\* a BADPAR that goes to a state past the end of KEYTAB
BADPAR_PastTable(r) ==
    KEYRET([r EXCEPT !.flags = SetBit(@, m_fKeyParity),
                     !.state = STATE_ERROR + 1])

\* BADPAR
BADPAR(r) ==
    KEYRET([r EXCEPT !.flags = SetBit(@, m_fKeyParity), !.state = STATE_ERROR])

\* a receiver that expects even parity
SPARITY_Even(r, d) ==
    IF PSW_P(r.data) = 1
    THEN IF d = 1 THEN KEYNXT(r) ELSE BADPAR(r)
    ELSE IF d = 1 THEN BADPAR(r) ELSE KEYNXT(r)

\* SPARITY / SPAR1 (state 9)
SPARITY(r, d) ==
    IF PSW_P(r.data) = 1
    THEN IF d = 0 THEN KEYNXT(r) ELSE BADPAR(r)
    ELSE IF d = 0 THEN BADPAR(r) ELSE KEYNXT(r)

\* a receiver that stores the byte whatever the stop bit
STOPB_IgnoresStopBit(r, d) ==
    LET r1 == [r EXCEPT !.flags = ClrBit(@, m_fKeyBusy), !.tr0 = FALSE]
    IN  KEYRET([PutKey(r1) EXCEPT !.state = 0])

\* a receiver whose stop bit handler clears the whole flag byte
STOPB_ClearsFlags(r, d) ==
    LET r1 == [r EXCEPT !.flags = 0, !.tr0 = FALSE]
    IN  IF d = 0
        THEN FRAERR(r1)
        ELSE KEYRET([PutKey(r1) EXCEPT !.state = 0])

\* STOPB (state 10)
STOPB(r, d) ==
    LET r1 == [r EXCEPT !.flags = ClrBit(@, m_fKeyBusy), !.tr0 = FALSE]
    IN  IF d = 0
        THEN FRAERR(r1)
        ELSE KEYRET([PutKey(r1) EXCEPT !.state = 0])

\* a table whose twelfth entry goes on to the next state
ERRORSTATE_Advances(r, d) == KEYNXT(r)

\* the handler of state 11
ERRORSTATE(r, d) == KEYRET(r)

\* KEYTAB: the dispatch JMP @A+DPTR with A = 2 * m_bKeyState, for the twelve
\* entries of the table
KEYTAB(r, d) ==
    CASE r.state = 0         -> START(r, d)
      [] r.state \in 1..8    -> SDATA(r, d)
      [] r.state = 9         -> SPARITY(r, d)
      [] r.state = 10        -> STOPB(r, d)
      [] r.state = 11        -> ERRORSTATE(r, d)

\* a timeout handler that flags the timeout and leaves the state alone
TimeoutHandler_KeepsState(r) ==
    [r EXCEPT !.flags = ClrBit(SetBit(@, m_fKeyTimeout), m_fKeyBusy)]

\* _KEYBOARD_TIMEOUT
TimeoutHandler(r) ==
    [r EXCEPT !.flags = ClrBit(SetBit(@, m_fKeyTimeout), m_fKeyBusy),
              !.state = 0]

\* bytes between the cursors: stored and not yet fetched
Held == (m_bKeyPut - m_bKeyGet + KEYBUFLEN) % KEYBUFLEN

\* the handler is about to accept a stop bit, and so call PutKey, while the
\* buffer holds KEYBUFLEN-1 bytes
StopOnFull ==
    m_bKeyState = 10 /\ KEYBOARD_DATA = 1 /\ Held = KEYBUFLEN - 1

SetRx(r) ==
    /\ m_bKeyState' = r.state
    /\ m_bKeyData' = r.data
    /\ m_bKeyPut' = r.put
    /\ m_abKeyBuffer' = r.buf
    /\ g_bKeyFlags' = r.flags
    /\ TR0' = r.tr0
    /\ TF0' = r.tf0

\* One run of the INT0 handler.  The hardware vectors to it when the edge flag
\* is set and INT0 is enabled, and clears the edge flag on the way.
KEYBOARD_BIT ==
    /\ IE0 /\ EX0 /\ EA
    /\ m_bKeyState \in 0..11
    /\ SetRx(KEYTAB(Rx, KEYBOARD_DATA))
    /\ IE0' = FALSE
    /\ overrun' = (overrun \/ StopOnFull)
    /\ frameStored' =
         IF m_bKeyState = 0 /\ KEYBOARD_DATA = 0 THEN FALSE
         ELSE IF m_bKeyPut' # m_bKeyPut \/ m_abKeyBuffer' # m_abKeyBuffer
         THEN TRUE
         ELSE frameStored
    /\ stored' = IF m_bKeyPut' # m_bKeyPut
               THEN Append(stored, m_abKeyBuffer'[m_bKeyPut'])
               ELSE stored
    /\ bits' = IF m_bKeyState \in 1..8 THEN Append(bits, KEYBOARD_DATA)
               ELSE <<>>
    /\ UNCHANGED <<m_bKeyGet, sfrvars, KEYBOARD_DATA, mainvars, KEY_DATA_RDY,
                   kbvars, got, asciiKey, resolved, sent>>

\* Timer 0 counts while TR0 is set.  It overflows after the programmed delay
\* (and, in mode 1, every 65536 counts from then on), which sets TF0.  That
\* happens between frames or inside a frame the keyboard clocks slowly: the
\* eleven bits of any other frame take less than the delay.
TimerOverflow ==
    /\ TR0 /\ ~TF0
    /\ kbPos = 0 \/ kbKind = "slow"
    /\ TF0' = TRUE
    /\ UNCHANGED <<m_bKeyState, m_bKeyData, m_bKeyGet, m_bKeyPut,
                   m_abKeyBuffer, g_bKeyFlags, TR0, sfrvars, IE0,
                   KEYBOARD_DATA, mainvars, KEY_DATA_RDY, kbvars, histvars>>

\* One run of the timer 0 handler.  The hardware vectors to it when TF0 is set
\* and clears TF0 on the way.  INT0 is polled before timer 0, so a waiting
\* clock edge is served first.
KEYBOARD_TIMEOUT ==
    /\ TF0 /\ ET0 /\ EA
    /\ ~(IE0 /\ EX0)
    /\ SetRx([TimeoutHandler(Rx) EXCEPT !.tf0 = FALSE])
    /\ bits' = <<>>
    /\ UNCHANGED <<m_bKeyGet, sfrvars, IE0, KEYBOARD_DATA, mainvars,
                   KEY_DATA_RDY, kbvars, got, overrun, frameStored, stored,
                   asciiKey, resolved, sent>>

\* An interrupt that is flagged and enabled is taken when the instruction in
\* progress ends: the program does not go on while one waits.
InterruptPending ==
    EA /\ ((IE0 /\ EX0) \/ (TF0 /\ ET0))

---------------------------------------------------------------------------
(* Output codes of scancode.h *)

KEY_BREAK == 128

KEY_F1 == 129

KEY_F2 == 130

KEY_F3 == 131

KEY_F4 == 132

KEY_F5 == 133

KEY_F6 == 134

KEY_F7 == 135

KEY_F8 == 136

KEY_F9 == 137

KEY_F10 == 138

KEY_F11 == 139

KEY_F12 == 140

KEY_SCRLCK == 141

KEY_NUMLOCK == 142

KEY_UP == 144

KEY_DOWN == 145

KEY_RIGHT == 146

KEY_LEFT == 147

KEY_MENU == 149

KEY_END == 150

KEY_HOME == 151

KEY_INSERT == 152

KEY_PGDN == 153

KEY_PGUP == 154

KEY_DELETE == 155

KEY_KP0 == 160

KEY_KP1 == 161

KEY_KP2 == 162

KEY_KP3 == 163

KEY_KP4 == 164

KEY_KP5 == 165

KEY_KP6 == 166

KEY_KP7 == 167

KEY_KP8 == 168

KEY_KP9 == 169

KEY_KPDOT == 170

KEY_KPPLUS == 171

KEY_KPSLASH == 172

KEY_KPSTAR == 173

KEY_KPMINUS == 174

KEY_KPENTER == 175

KEY_VERSION == 192

VERSION == 4

\* the build's strobe level (the Makefile passes -DSTROBE_ACT_LVL=0)
STROBE_ACT_LVL == 0

---------------------------------------------------------------------------
(* The protocol decoder of host.c.  The decoder's position is the WaitKey    *)
(* call it is waiting in; each byte WaitKey returns moves it on.  The C      *)
(* functions are functions of the byte, the release flag and m_bShiftFlags   *)
(* (bit 0 left shift, bit 1 right shift, bit 2 control, bit 3 caps lock).    *)

m_fLeftShiftDown == 0

m_fRightShiftDown == 1

m_fControlDown == 2

m_fCapsLockOn == 3

\* a C assignment of a bool to a __bit
PutBit(b, n, v) == IF v THEN SetBit(b, n) ELSE ClrBit(b, n)

\* no byte goes to the host
NoSend == -1

\* a DoSpecial that lets every byte through
DoSpecial_None(bKey) == FALSE

\* DoSpecial: ACK, self test passed, echo, resend and the two error codes
DoSpecial(bKey) == bKey \in {250, 170, 238, 254, 0, 255}

\* a DoShift in which caps lock only ever switches on
DoShift_CapsLockSets(bKey, fRelease, fExtended, shift, swap) ==
    IF bKey = 88 /\ ~swap /\ ~fRelease
    THEN [handled |-> TRUE, shift |-> SetBit(shift, m_fCapsLockOn)]
    ELSE [handled |-> FALSE, shift |-> shift]

\* a DoExtended that sends the code of an extended key on its release too
DoExtended_OnRelease(bExtended, fRelease, shift, swap) ==
    [shift |-> shift,
     send  |-> IF bExtended = 117 THEN KEY_UP ELSE NoSend]

\* the "hack" at the top of DoShift; swap is SWAP_CAPSLOCK_AND_CONTROL
SwapKey(bKey, swap) ==
    IF swap
    THEN IF bKey = 88 THEN 20 ELSE IF bKey = 20 THEN 88 ELSE bKey
    ELSE bKey

\* DoShift: [handled, shift], shift being m_bShiftFlags afterwards
DoShift(bKey, fRelease, fExtended, shift, swap) ==
    LET k == SwapKey(bKey, swap)
    IN  CASE k = 18 -> [handled |-> TRUE,
                        shift |-> PutBit(shift, m_fLeftShiftDown, ~fRelease)]
          [] k = 89 -> [handled |-> TRUE,
                        shift |-> PutBit(shift, m_fRightShiftDown, ~fRelease)]
          [] k = 20 -> IF fExtended
                       THEN [handled |-> FALSE, shift |-> shift]
                       ELSE [handled |-> TRUE,
                             shift |-> PutBit(shift, m_fControlDown, ~fRelease)]
          [] k = 88 -> IF fRelease
                       THEN [handled |-> FALSE, shift |-> shift]
                       ELSE [handled |-> TRUE,
                             shift |-> PutBit(shift, m_fCapsLockOn,
                                              ~TestBit(shift, m_fCapsLockOn))]
          [] k = 17 -> [handled |-> TRUE, shift |-> shift]
          [] OTHER  -> [handled |-> FALSE, shift |-> shift]

\* a DoFunction that reports F1 with the code of the version byte
FunctionCode_F1AsVersion(bKey) ==
    IF bKey = 5 THEN KEY_VERSION + VERSION ELSE NoSend

\* DoFunction: the code of a function key, NoSend for any other byte
FunctionCode(bKey) ==
    CASE bKey = 5   -> KEY_F1
      [] bKey = 6   -> KEY_F2
      [] bKey = 4   -> KEY_F3
      [] bKey = 12  -> KEY_F4
      [] bKey = 3   -> KEY_F5
      [] bKey = 11  -> KEY_F6
      [] bKey = 131 -> KEY_F7
      [] bKey = 10  -> KEY_F8
      [] bKey = 1   -> KEY_F9
      [] bKey = 9   -> KEY_F10
      [] bKey = 120 -> KEY_F11
      [] bKey = 7   -> KEY_F12
      [] OTHER      -> NoSend

\* DoKeypad: the code of a keypad key, NoSend for any other byte
KeypadCode(bKey) ==
    CASE bKey = 112 -> KEY_KP0
      [] bKey = 105 -> KEY_KP1
      [] bKey = 114 -> KEY_KP2
      [] bKey = 122 -> KEY_KP3
      [] bKey = 107 -> KEY_KP4
      [] bKey = 115 -> KEY_KP5
      [] bKey = 116 -> KEY_KP6
      [] bKey = 108 -> KEY_KP7
      [] bKey = 117 -> KEY_KP8
      [] bKey = 125 -> KEY_KP9
      [] bKey = 113 -> KEY_KPDOT
      [] bKey = 124 -> KEY_KPSTAR
      [] bKey = 123 -> KEY_KPMINUS
      [] bKey = 121 -> KEY_KPPLUS
      [] OTHER      -> NoSend

\* DoKeypad returns true for these bytes
DoKeypadHandles(bKey) == KeypadCode(bKey) # NoSend \/ bKey = 119

\* a DoExtended that takes the keys of the editing pad for those of the
\* numeric keypad
ExtendedCode_AsKeypad(bExtended) == KeypadCode(bExtended)

\* DoExtended's switch: the code an extended key sends, NoSend for the others
ExtendedCode(bExtended) ==
    CASE bExtended = 117 -> KEY_UP
      [] bExtended = 114 -> KEY_DOWN
      [] bExtended = 116 -> KEY_RIGHT
      [] bExtended = 107 -> KEY_LEFT
      [] bExtended = 105 -> KEY_END
      [] bExtended = 108 -> KEY_HOME
      [] bExtended = 112 -> KEY_INSERT
      [] bExtended = 113 -> KEY_DELETE
      [] bExtended = 122 -> KEY_PGDN
      [] bExtended = 125 -> KEY_PGUP
      [] bExtended = 90  -> KEY_KPENTER
      [] bExtended = 74  -> KEY_KPSLASH
      [] bExtended = 47  -> KEY_MENU
      [] OTHER           -> NoSend

\* a DoExtended that hands every code to DoShift as if it had come without
\* E0
DoExtended_AllToShift(bExtended, fRelease, shift, swap) ==
    [shift |-> DoShift(bExtended, fRelease, FALSE, shift, swap).shift,
     send  |-> IF fRelease THEN NoSend ELSE ExtendedCode(bExtended)]

\* DoExtended after its WaitKey calls: [shift, send]
DoExtended(bExtended, fRelease, shift, swap) ==
    IF bExtended \in {17, 20, 31, 39}
    THEN [shift |-> DoShift(bExtended, fRelease, TRUE, shift, swap).shift,
          send  |-> NoSend]
    ELSE [shift |-> shift,
          send  |-> IF fRelease THEN NoSend ELSE ExtendedCode(bExtended)]


\* The rows of g_abScanCodes[128][4] (scancode_us.c): the characters of a key
\* for the shift index 0 (plain), 1 (shift), 2 (control), 3 (shift+control).
\* A letter key gives its lower case, its upper case and its control code.
LetterKeys ==
    [k \in {28, 50, 33, 35, 36, 43, 52, 51, 67, 59, 66, 75, 58, 49, 68, 77,
            21, 45, 27, 44, 60, 42, 29, 34, 53, 26} |->
        CASE k = 28 -> 97  [] k = 50 -> 98  [] k = 33 -> 99  [] k = 35 -> 100
          [] k = 36 -> 101 [] k = 43 -> 102 [] k = 52 -> 103 [] k = 51 -> 104
          [] k = 67 -> 105 [] k = 59 -> 106 [] k = 66 -> 107 [] k = 75 -> 108
          [] k = 58 -> 109 [] k = 49 -> 110 [] k = 68 -> 111 [] k = 77 -> 112
          [] k = 21 -> 113 [] k = 45 -> 114 [] k = 27 -> 115 [] k = 44 -> 116
          [] k = 60 -> 117 [] k = 42 -> 118 [] k = 29 -> 119 [] k = 34 -> 120
          [] k = 53 -> 121 [] k = 26 -> 122]

\* keys that give the same character whatever the shift index
PlainKeys ==
    [k \in {41, 90, 102, 13, 118} |->
        CASE k = 41 -> 32 [] k = 90 -> 13 [] k = 102 -> 8 [] k = 13 -> 9
          [] k = 118 -> 27]

\* the digit row: the digit, and the character above it
DigitKeys ==
    [k \in {69, 22, 30, 38, 37, 46, 54, 61, 62, 70} |->
        CASE k = 69 -> <<48, 41>> [] k = 22 -> <<49, 33>> [] k = 30 -> <<50, 64>>
          [] k = 38 -> <<51, 35>> [] k = 37 -> <<52, 36>> [] k = 46 -> <<53, 37>>
          [] k = 54 -> <<54, 94>> [] k = 61 -> <<55, 38>> [] k = 62 -> <<56, 42>>
          [] k = 70 -> <<57, 40>>]

g_abScanCodes(bKey, bShift) ==
    IF bKey \in DOMAIN LetterKeys
    THEN CASE bShift = 0 -> LetterKeys[bKey]
           [] bShift = 1 -> LetterKeys[bKey] - 32
           [] OTHER      -> LetterKeys[bKey] - 96
    ELSE IF bKey \in DOMAIN PlainKeys
    THEN PlainKeys[bKey]
    ELSE IF bKey \in DOMAIN DigitKeys
    THEN CASE bShift = 0 -> DigitKeys[bKey][1]
           [] bShift = 1 -> DigitKeys[bKey][2]
           [] OTHER      -> 0
    ELSE 0

\* What the read g_abScanCodes[bKey][bShift] can give.  bKey is a uint8_t and
\* the table has 128 rows: a row past the end is whatever the linker placed
\* behind the table.
ScanCodeEntries(bKey, bShift) ==
    IF bKey < 128 THEN {g_abScanCodes(bKey, bShift)} ELSE {0, 97, 255}

\* bShift of DoASCII
ShiftIndex(shift) ==
    (IF TestBit(shift, m_fLeftShiftDown) \/ TestBit(shift, m_fRightShiftDown)
     THEN 1 ELSE 0)
    + (IF TestBit(shift, m_fControlDown) THEN 2 ELSE 0)

islower(c) == c >= 97 /\ c <= 122

toupper(c) == BitAnd(c, 223)

\* a DoASCII that sends the character on the release too
DoASCII_OnRelease(bASCII, fRelease, shift) ==
    IF bASCII = 0 THEN [handled |-> FALSE, send |-> NoSend]
    ELSE [handled |-> TRUE, send |-> BitAnd(bASCII, 127)]

\* a DoASCII without bASCII &= 0x7F
DoASCII_NoMask(bASCII, fRelease, shift) ==
    IF bASCII = 0 THEN [handled |-> FALSE, send |-> NoSend]
    ELSE IF fRelease THEN [handled |-> TRUE, send |-> NoSend]
    ELSE [handled |-> TRUE,
          send |-> IF TestBit(shift, m_fCapsLockOn) /\ islower(bASCII)
                   THEN toupper(bASCII) ELSE bASCII]

\* DoASCII, bASCII being the table entry read: [handled, send]
DoASCII(bASCII, fRelease, shift) ==
    IF bASCII = 0 THEN [handled |-> FALSE, send |-> NoSend]
    ELSE IF fRelease THEN [handled |-> TRUE, send |-> NoSend]
    ELSE LET a == BitAnd(bASCII, 127)
         IN  [handled |-> TRUE,
              send |-> IF TestBit(shift, m_fCapsLockOn) /\ islower(a)
                       THEN toupper(a) ELSE a]

\* a decoder that expects 7E where the sequence ends in 77
PauseTail_WrongEnd == <<20, 119, 225, 240, 20, 240, 126>>

\* the tail of the Pause/Break sequence, after its E1
PauseTail == <<20, 119, 225, 240, 20, 240, 119>>

Decoded(pos, idx, shift, send) ==
    [pos |-> pos, idx |-> idx, shift |-> shift, send |-> send,
     ascii |-> FALSE]

\* a ConvertKeys without its tests for NUM LOCK and SCROLL LOCK
KeyEvent_NoLockKeys(bKey, fRelease, shift, swap, bASCII) ==
    LET sh == DoShift(bKey, fRelease, FALSE, shift, swap)
        press(code) == IF fRelease THEN NoSend ELSE code
    IN  IF sh.handled THEN Decoded("top", 0, sh.shift, NoSend)
        ELSE IF FunctionCode(bKey) # NoSend
        THEN Decoded("top", 0, shift, press(FunctionCode(bKey)))
        ELSE IF DoKeypadHandles(bKey)
        THEN Decoded("top", 0, shift, press(KeypadCode(bKey)))
        ELSE [Decoded("top", 0, shift, DoASCII(bASCII, fRelease, shift).send)
                EXCEPT !.ascii = TRUE]

\* ConvertKeys from "if (bKey == 0x77)" to the end of the loop body
KeyEvent(bKey, fRelease, shift, swap, bASCII) ==
    LET sh == DoShift(bKey, fRelease, FALSE, shift, swap)
        press(code) == IF fRelease THEN NoSend ELSE code
    IN  IF bKey = 119 THEN Decoded("top", 0, shift, press(KEY_NUMLOCK))
        ELSE IF bKey = 126 THEN Decoded("top", 0, shift, press(KEY_SCRLCK))
        ELSE IF sh.handled THEN Decoded("top", 0, sh.shift, NoSend)
        ELSE IF FunctionCode(bKey) # NoSend
        THEN Decoded("top", 0, shift, press(FunctionCode(bKey)))
        ELSE IF DoKeypadHandles(bKey)
        THEN Decoded("top", 0, shift, press(KeypadCode(bKey)))
        ELSE [Decoded("top", 0, shift, DoASCII(bASCII, fRelease, shift).send)
                EXCEPT !.ascii = TRUE]

\* a ConvertKeys that sends KEY_BREAK in the middle of the Pause/Break
\* sequence too, after its second E1
Dispatch_BreakTwice(pos, idx, shift, swap, bKey, bASCII) ==
    CASE pos = "top" ->
           IF DoSpecial(bKey) THEN Decoded("top", 0, shift, NoSend)
           ELSE IF bKey = 224 THEN Decoded("ext", 0, shift, NoSend)
           ELSE IF bKey = 225 THEN Decoded("pause", 1, shift, NoSend)
           ELSE IF bKey = 240 THEN Decoded("rel", 0, shift, NoSend)
           ELSE KeyEvent(bKey, FALSE, shift, swap, bASCII)
      [] pos = "rel" -> KeyEvent(bKey, TRUE, shift, swap, bASCII)
      [] pos = "ext" ->
           IF bKey = 240 THEN Decoded("extrel", 0, shift, NoSend)
           ELSE LET x == DoExtended(bKey, FALSE, shift, swap)
                IN  Decoded("top", 0, x.shift, x.send)
      [] pos = "extrel" ->
           LET x == DoExtended(bKey, TRUE, shift, swap)
           IN  Decoded("top", 0, x.shift, x.send)
      [] pos = "pause" ->
           IF bKey # PauseTail[idx] THEN Decoded("top", 0, shift, NoSend)
           ELSE IF idx = 7 THEN Decoded("top", 0, shift, KEY_BREAK)
           ELSE IF idx = 3 THEN Decoded("pause", idx + 1, shift, KEY_BREAK)
           ELSE Decoded("pause", idx + 1, shift, NoSend)

\* What ConvertKeys does with the byte bKey that WaitKey returned to the call
\* it was waiting in: [pos, idx, shift, send, ascii].  bASCII is the table
\* entry DoASCII reads if the byte gets that far, and ascii tells whether it
\* did.
Dispatch(pos, idx, shift, swap, bKey, bASCII) ==
    CASE pos = "top" ->
           IF DoSpecial(bKey) THEN Decoded("top", 0, shift, NoSend)
           ELSE IF bKey = 224 THEN Decoded("ext", 0, shift, NoSend)
           ELSE IF bKey = 225 THEN Decoded("pause", 1, shift, NoSend)
           ELSE IF bKey = 240 THEN Decoded("rel", 0, shift, NoSend)
           ELSE KeyEvent(bKey, FALSE, shift, swap, bASCII)
      [] pos = "rel" -> KeyEvent(bKey, TRUE, shift, swap, bASCII)
      [] pos = "ext" ->
           IF bKey = 240 THEN Decoded("extrel", 0, shift, NoSend)
           ELSE LET x == DoExtended(bKey, FALSE, shift, swap)
                IN  Decoded("top", 0, x.shift, x.send)
      [] pos = "extrel" ->
           LET x == DoExtended(bKey, TRUE, shift, swap)
           IN  Decoded("top", 0, x.shift, x.send)
      [] pos = "pause" ->
           IF bKey # PauseTail[idx] THEN Decoded("top", 0, shift, NoSend)
           ELSE IF idx = 7 THEN Decoded("top", 0, shift, KEY_BREAK)
           ELSE Decoded("pause", idx + 1, shift, NoSend)

\* SWAP_CAPSLOCK_AND_CONTROL of the build without DEBUG
SWAP_CAPSLOCK_AND_CONTROL(P3_0) == P3_0 = 0


---------------------------------------------------------------------------
(* The normal context.  Each action is one step of main, InitializeKeyboard, *)
(* SendHost, GetKey, WaitKey or ConvertKeys; a step holds at most one access *)
(* to memory that an interrupt handler also uses.                            *)

\* main: park the strobe, then call InitializeKeyboard
MainStart ==
    /\ pc = "main"
    /\ SET_KEY_DATA_RDY' = 1 - STROBE_ACT_LVL
    /\ pc' = "ik_get"
    /\ initRet' = "main_inton"
    /\ UNCHANGED <<m_bKeyGet, rxvars, sfrvars, IE0, KEYBOARD_DATA, sendRet,
                   nKey, ch, P1, KEY_DATA_RDY, decvars, kbvars, histvars>>

\* InitializeKeyboard: MOV m_bKeyGet, A
InitGet ==
    /\ pc = "ik_get"
    /\ m_bKeyGet' = 0
    /\ pc' = "ik_put"
    /\ UNCHANGED <<rxvars, sfrvars, IE0, KEYBOARD_DATA, initRet, sendRet, nKey,
                   ch, P1, SET_KEY_DATA_RDY, KEY_DATA_RDY, decvars, kbvars,
                   histvars>>

\* InitializeKeyboard: MOV m_bKeyPut, A
InitPut ==
    /\ pc = "ik_put"
    /\ m_bKeyPut' = 0
    /\ pc' = "ik_state"
    /\ UNCHANGED <<m_bKeyState, m_bKeyData, m_bKeyGet, m_abKeyBuffer,
                   g_bKeyFlags, TR0, TF0, sfrvars, IE0, KEYBOARD_DATA,
                   initRet, sendRet, nKey, ch, P1, SET_KEY_DATA_RDY,
                   KEY_DATA_RDY, decvars, kbvars, histvars>>

\* InitializeKeyboard: MOV m_bKeyState, A
InitState ==
    /\ pc = "ik_state"
    /\ m_bKeyState' = 0
    /\ pc' = "ik_flags"
    /\ UNCHANGED <<m_bKeyData, m_bKeyGet, m_bKeyPut, m_abKeyBuffer,
                   g_bKeyFlags, TR0, TF0, sfrvars, IE0, KEYBOARD_DATA,
                   initRet, sendRet, nKey, ch, P1, SET_KEY_DATA_RDY,
                   KEY_DATA_RDY, decvars, kbvars, histvars>>

\* InitializeKeyboard: MOV _g_bKeyFlags, A
InitFlags ==
    /\ pc = "ik_flags"
    /\ g_bKeyFlags' = 0
    /\ pc' = "ik_tr0"
    /\ UNCHANGED <<m_bKeyState, m_bKeyData, m_bKeyGet, m_bKeyPut,
                   m_abKeyBuffer, TR0, TF0, sfrvars, IE0, KEYBOARD_DATA,
                   initRet, sendRet, nKey, ch, P1, SET_KEY_DATA_RDY,
                   KEY_DATA_RDY, decvars, kbvars, histvars>>

\* InitializeKeyboard: the timer mode, then CLR TR0
InitTimer ==
    /\ pc = "ik_tr0"
    /\ TR0' = FALSE
    /\ pc' = "ik_et0"
    /\ UNCHANGED <<m_bKeyState, m_bKeyData, m_bKeyGet, m_bKeyPut,
                   m_abKeyBuffer, g_bKeyFlags, TF0, sfrvars, IE0,
                   KEYBOARD_DATA, initRet, sendRet, nKey, ch, P1,
                   SET_KEY_DATA_RDY, KEY_DATA_RDY, decvars, kbvars, histvars>>

\* InitializeKeyboard: SETB ET0
InitET0 ==
    /\ pc = "ik_et0"
    /\ ET0' = TRUE
    /\ pc' = "ik_ex0"
    /\ UNCHANGED <<m_bKeyGet, rxvars, EX0, EA, IE0, KEYBOARD_DATA, initRet,
                   sendRet, nKey, ch, P1, SET_KEY_DATA_RDY, KEY_DATA_RDY,
                   decvars, kbvars, histvars>>

\* InitializeKeyboard: release the pins, SETB IT0, SETB EX0, RET
InitEX0 ==
    /\ pc = "ik_ex0"
    /\ EX0' = TRUE
    /\ pc' = initRet
    /\ UNCHANGED <<m_bKeyGet, rxvars, ET0, EA, IE0, KEYBOARD_DATA, initRet,
                   sendRet, nKey, ch, P1, SET_KEY_DATA_RDY, KEY_DATA_RDY,
                   decvars, kbvars, histvars>>

InitializeKeyboard ==
    \/ InitGet \/ InitPut \/ InitState \/ InitFlags
    \/ InitTimer \/ InitET0 \/ InitEX0

\* main: INT_ON, then the call SendHost(KEY_VERSION|VERSION)
MainIntOn ==
    /\ pc = "main_inton"
    /\ EA' = TRUE
    /\ ch' = KEY_VERSION + VERSION
    /\ sendRet' = "ck_init"
    /\ resolved' = Append(resolved, KEY_VERSION + VERSION)
    /\ pc' = "sh_p1"
    /\ UNCHANGED <<m_bKeyGet, rxvars, ET0, EX0, IE0, KEYBOARD_DATA, initRet,
                   nKey, P1, SET_KEY_DATA_RDY, KEY_DATA_RDY, decvars, kbvars,
                   got, overrun, frameStored, stored, bits, asciiKey, sent>>

\* a SendHost that strobes whatever the bus holds
SendData_StaleBus ==
    /\ pc = "sh_p1"
    /\ pc' = "sh_strobe"
    /\ UNCHANGED <<m_bKeyGet, rxvars, sfrvars, IE0, KEYBOARD_DATA, initRet,
                   sendRet, nKey, ch, P1, SET_KEY_DATA_RDY, KEY_DATA_RDY,
                   decvars, kbvars, histvars>>

\* SendHost: P1 = ch
SendData ==
    /\ pc = "sh_p1"
    /\ P1' = ch
    /\ pc' = "sh_strobe"
    /\ UNCHANGED <<m_bKeyGet, rxvars, sfrvars, IE0, KEYBOARD_DATA, initRet,
                   sendRet, nKey, ch, SET_KEY_DATA_RDY, KEY_DATA_RDY, decvars,
                   kbvars, histvars>>

\* SendHost: SET_KEY_DATA_RDY = STROBE_ACT_LVL.  The strobe sets the KEY DATA
\* READY flip-flop, which P3.3 then reads as 0 ("byte is waiting").
SendStrobe ==
    /\ pc = "sh_strobe"
    /\ SET_KEY_DATA_RDY' = STROBE_ACT_LVL
    /\ KEY_DATA_RDY' = 0
    /\ sent' = Append(sent, P1)
    /\ pc' = "sh_wait"
    /\ UNCHANGED <<m_bKeyGet, rxvars, sfrvars, IE0, KEYBOARD_DATA, initRet,
                   sendRet, nKey, ch, P1, decvars, kbvars, got, overrun,
                   frameStored, stored, bits, asciiKey, resolved>>

\* a SendHost that does not wait for the host
HostAcknowledged_NoWait == TRUE

\* SendHost: the exit condition of while (KEY_DATA_RDY == 0) ;
HostAcknowledged == KEY_DATA_RDY # 0

\* SendHost: while (KEY_DATA_RDY == 0) ;
SendWait ==
    /\ pc = "sh_wait"
    /\ HostAcknowledged
    /\ pc' = "sh_done"
    /\ UNCHANGED <<m_bKeyGet, rxvars, sfrvars, IE0, KEYBOARD_DATA, initRet,
                   sendRet, nKey, ch, P1, SET_KEY_DATA_RDY, KEY_DATA_RDY,
                   decvars, kbvars, histvars>>

\* SendHost: SET_KEY_DATA_RDY = !STROBE_ACT_LVL, and return
SendDone ==
    /\ pc = "sh_done"
    /\ SET_KEY_DATA_RDY' = 1 - STROBE_ACT_LVL
    /\ pc' = sendRet
    /\ UNCHANGED <<m_bKeyGet, rxvars, sfrvars, IE0, KEYBOARD_DATA, initRet,
                   sendRet, nKey, ch, P1, KEY_DATA_RDY, decvars, kbvars,
                   histvars>>

SendHost == SendData \/ SendStrobe \/ SendWait \/ SendDone

\* ConvertKeys: m_bShiftFlags = 0, then the first WaitKey
ConvertKeysStart ==
    /\ pc = "ck_init"
    /\ m_bShiftFlags' = 0
    /\ ckPos' = "top"
    /\ pauseIdx' = 0
    /\ pc' = "gk_clr"
    /\ UNCHANGED <<m_bKeyGet, rxvars, sfrvars, IE0, KEYBOARD_DATA, initRet,
                   sendRet, nKey, ch, P1, SET_KEY_DATA_RDY, KEY_DATA_RDY, kbvars,
                   histvars>>

\* a GetKey that leaves the keyboard interrupt enabled
GetKeyMask_NoMask ==
    /\ pc = "gk_clr"
    /\ pc' = "gk_cmp"
    /\ UNCHANGED <<m_bKeyGet, rxvars, sfrvars, IE0, KEYBOARD_DATA, initRet,
                   sendRet, nKey, ch, P1, SET_KEY_DATA_RDY, KEY_DATA_RDY,
                   decvars, kbvars, histvars>>

\* GetKey: CLR EX0
GetKeyMask ==
    /\ pc = "gk_clr"
    /\ EX0' = FALSE
    /\ pc' = "gk_cmp"
    /\ UNCHANGED <<m_bKeyGet, rxvars, ET0, EA, IE0, KEYBOARD_DATA, initRet,
                   sendRet, nKey, ch, P1, SET_KEY_DATA_RDY, KEY_DATA_RDY,
                   decvars, kbvars, histvars>>

\* GetKey: MOV A, m_bKeyGet / CJNE A,m_bKeyPut,GETK1
GetKeyCompare ==
    /\ pc = "gk_cmp"
    /\ nKey' = m_bKeyGet
    /\ pc' = IF m_bKeyGet # m_bKeyPut THEN "gk_fetch" ELSE "gk_empty"
    /\ UNCHANGED <<m_bKeyGet, rxvars, sfrvars, IE0, KEYBOARD_DATA, initRet,
                   sendRet, ch, P1, SET_KEY_DATA_RDY, KEY_DATA_RDY, decvars,
                   kbvars, histvars>>

\* GetKey, GETK1: advance the get cursor and fetch the byte under it
GetKeyFetch ==
    /\ pc = "gk_fetch"
    /\ LET a == BitAnd(INC(nKey), KEYBUFLEN - 1)
       IN  /\ m_bKeyGet' = a
           /\ nKey' = m_abKeyBuffer[a]
    /\ pc' = "gk_ret"
    /\ UNCHANGED <<rxvars, sfrvars, IE0, KEYBOARD_DATA, initRet, sendRet, ch,
                   P1, SET_KEY_DATA_RDY, KEY_DATA_RDY, decvars, kbvars,
                   histvars>>

\* GetKey: SETB EX0 and return the byte, zero filled; WaitKey returns its low
\* byte to the WaitKey call of the decoder
GetKeyReturn ==
    /\ pc = "gk_ret"
    /\ EX0' = TRUE
    /\ got' = Append(got, nKey)
    /\ pc' = "ck_disp"
    /\ UNCHANGED <<m_bKeyGet, rxvars, ET0, EA, IE0, KEYBOARD_DATA, initRet,
                   sendRet, nKey, ch, P1, SET_KEY_DATA_RDY, KEY_DATA_RDY,
                   decvars, kbvars, overrun, frameStored, stored, bits, asciiKey,
                   resolved,
                   sent>>

\* a GetKey that returns its "empty" in eight bits
GetKeyEmpty_InAByte ==
    /\ pc = "gk_empty"
    /\ EX0' = TRUE
    /\ nKey' = 255
    /\ pc' = "wk_flags"
    /\ UNCHANGED <<m_bKeyGet, rxvars, ET0, EA, IE0, KEYBOARD_DATA, initRet,
                   sendRet, ch, P1, SET_KEY_DATA_RDY, KEY_DATA_RDY, decvars,
                   kbvars, histvars>>

\* GetKey: the buffer is empty: SETB EX0 and return -1; WaitKey goes on to
\* look at the error flags
GetKeyEmpty ==
    /\ pc = "gk_empty"
    /\ EX0' = TRUE
    /\ nKey' = -1
    /\ pc' = "wk_flags"
    /\ UNCHANGED <<m_bKeyGet, rxvars, ET0, EA, IE0, KEYBOARD_DATA, initRet,
                   sendRet, ch, P1, SET_KEY_DATA_RDY, KEY_DATA_RDY, decvars,
                   kbvars, histvars>>

GetKey ==
    \/ GetKeyMask \/ GetKeyCompare \/ GetKeyFetch \/ GetKeyReturn
    \/ GetKeyEmpty

\* a WaitKey that takes any flag, Busy included, for an error
WaitKeyErrors_AnyFlag(flags) == flags # 0

\* WaitKey: if ((g_bKeyFlags & KEYBOARD_ERROR_BITS) != 0)
WaitKeyErrors(flags) == BitAnd(flags, KEYBOARD_ERROR_BITS) # 0

\* WaitKey after GetKey returned -1: reinitialize on error, then poll again
WaitKeyCheck ==
    /\ pc = "wk_flags"
    /\ IF WaitKeyErrors(g_bKeyFlags)
       THEN pc' = "ik_get" /\ initRet' = "gk_clr"
       ELSE pc' = "gk_clr" /\ UNCHANGED initRet
    /\ UNCHANGED <<m_bKeyGet, rxvars, sfrvars, IE0, KEYBOARD_DATA, sendRet,
                   nKey, ch, P1, SET_KEY_DATA_RDY, KEY_DATA_RDY, decvars,
                   kbvars, histvars>>

\* a ConvertKeys whose bKey DoShift has exchanged
DoASCIIKey_Exchanged(bKey, swap) == SwapKey(bKey, swap)

\* The code ConvertKeys passes to DoASCII: its own bKey.  DoShift exchanges
\* 0x58 and 0x14 in its parameter, a copy.
DoASCIIKey(bKey, swap) == bKey

\* The read g_abScanCodes[bKey][bShift] of the table this run is linked
\* with: the US table, or a table whose rows all hold rom, rom + 64,
\* rom + 128 and rom + 192 (mod 256) in their four columns.
TableRead(bKey, bShift) ==
    IF rom = -1 THEN ScanCodeEntries(bKey, bShift)
    ELSE {(rom + 64 * bShift) % 256}

\* ConvertKeys: one byte from WaitKey, up to the next WaitKey or SendHost.
\* DoShift reads the jumper JP4 on P3.0 when it runs.
ConvertKeysByte ==
    /\ pc = "ck_disp"
    /\ \E P3_0 \in (IF JP4 = -1 THEN {0, 1} ELSE {JP4}) :
       \E bASCII \in TableRead(DoASCIIKey(nKey, SWAP_CAPSLOCK_AND_CONTROL(P3_0)),
                               ShiftIndex(m_bShiftFlags)) :
         LET d == Dispatch(ckPos, pauseIdx, m_bShiftFlags,
                           SWAP_CAPSLOCK_AND_CONTROL(P3_0), nKey, bASCII)
         IN  /\ ckPos' = d.pos
             /\ asciiKey' =
                  IF d.ascii
                  THEN DoASCIIKey(nKey, SWAP_CAPSLOCK_AND_CONTROL(P3_0))
                  ELSE -1
             /\ pauseIdx' = d.idx
             /\ m_bShiftFlags' = d.shift
             /\ IF d.send = NoSend
                THEN /\ pc' = "gk_clr"
                     /\ UNCHANGED <<ch, sendRet, resolved>>
                ELSE /\ pc' = "sh_p1"
                     /\ ch' = d.send
                     /\ sendRet' = "gk_clr"
                     /\ resolved' = Append(resolved, d.send)
    /\ UNCHANGED <<m_bKeyGet, rxvars, sfrvars, IE0, KEYBOARD_DATA, initRet,
                   nKey, P1, SET_KEY_DATA_RDY, KEY_DATA_RDY, kbvars, got,
                   overrun, frameStored, stored, bits, sent>>

Main ==
    /\ ~InterruptPending
    /\ \/ MainStart \/ InitializeKeyboard \/ MainIntOn \/ SendHost
       \/ ConvertKeysStart \/ GetKey \/ WaitKeyCheck \/ ConvertKeysByte


---------------------------------------------------------------------------
(* The environment: the keyboard on the clock and data pins, the host on    *)
(* the ready flip-flop.                                                     *)

\* The scan codes the keyboard sends, frame after frame: a, its release,
\* shift, b, the releases, up arrow and its release, caps lock and its
\* release, c, F1.
KeySeq ==
    <<28, 240, 28, 18, 50, 240, 50, 240, 18, 224, 117, 224, 240, 117,
      88, 240, 88, 33, 5>>

\* the byte of the n-th frame
TxByte(n) == KeySeq[((n - 1) % Len(KeySeq)) + 1]

\* the parity bit of a PS/2 frame: data plus parity hold an odd number of 1s
OddParityBit(byte) == IF Ones(byte) % 2 = 0 THEN 1 ELSE 0

\* well-formed, well-formed but clocked so slowly that the 2 ms timer can
\* expire inside the frame, wrong parity bit, stop bit low, or one stray clock
\* edge
FrameKinds == {"good", "slow", "parity", "stop", "noise"}

FrameLen(kind) == IF kind = "noise" THEN 1 ELSE 11

\* the level of the data pin at the pos-th falling clock edge of a frame
FrameBit(kind, byte, pos) ==
    CASE kind = "noise" -> 1
      [] pos = 1        -> 0
      [] pos \in 2..9   -> BitOf(byte, pos - 2)
      [] pos = 10       -> IF kind = "parity" THEN 1 - OddParityBit(byte)
                           ELSE OddParityBit(byte)
      [] pos = 11       -> IF kind = "stop" THEN 0 ELSE 1

\* A falling clock edge with the data pin at level bit: the hardware sets the
\* INT0 edge flag.  Whatever interrupt was taken at the edge before has been
\* served by then (a bit time is at least 33 us), and the keyboard is not
\* heard before INT_ON.
ClockEdge(bit) ==
    /\ EA /\ ~IE0
    /\ ~(TF0 /\ ET0)
    /\ IE0' = TRUE
    /\ KEYBOARD_DATA' = bit
    /\ UNCHANGED <<m_bKeyGet, rxvars, sfrvars, mainvars, KEY_DATA_RDY,
                   histvars>>

\* the keyboard begins a frame of the given kind; max bounds the frames
KbdBegin(kind, max) ==
    /\ kbPos = 0
    /\ nFrames < max
    /\ nFrames' = nFrames + 1
    /\ kbKind' = IF FrameLen(kind) = 1 THEN "idle" ELSE kind
    /\ kbPos' = IF FrameLen(kind) = 1 THEN 0 ELSE 1
    /\ ClockEdge(FrameBit(kind, TxByte(nFrames + 1), 1))
    /\ UNCHANGED <<nEdges, feedvars>>

\* the keyboard sends the next bit of its frame
KbdNext ==
    /\ kbPos \in 1..10
    /\ kbPos' = IF kbPos = 10 THEN 0 ELSE kbPos + 1
    /\ kbKind' = IF kbPos = 10 THEN "idle" ELSE kbKind
    /\ ClockEdge(FrameBit(kbKind, TxByte(nFrames), kbPos + 1))
    /\ UNCHANGED <<nFrames, nEdges, feedvars>>

\* a clock edge with the data pin at either level
KbdAnyEdge ==
    /\ nEdges < MaxEdges
    /\ nEdges' = nEdges + 1
    /\ \E bit \in {0, 1} : ClockEdge(bit)
    /\ UNCHANGED <<kbPos, kbKind, nFrames, feedvars>>

\* the host reads the byte, which resets the KEY DATA READY flip-flop
HostRead ==
    /\ KEY_DATA_RDY = 0
    /\ KEY_DATA_RDY' = 1
    /\ UNCHANGED <<m_bKeyGet, rxvars, sfrvars, IE0, KEYBOARD_DATA, mainvars,
                   kbvars, histvars>>

---------------------------------------------------------------------------
(* Power-up.  The 8051 resets its special function registers to 0 and its   *)
(* ports to 1; internal RAM holds whatever it held (ram), except the        *)
(* initialized m_bShiftFlags.                                               *)

PowerUp ==
    /\ \E ram \in {0, 255} :
         /\ m_bKeyState = ram
         /\ m_bKeyData = ram
         /\ m_bKeyGet = ram
         /\ m_bKeyPut = ram
         /\ m_abKeyBuffer = [i \in 0..(KEYBUFLEN - 1) |-> ram]
         /\ g_bKeyFlags = ram
    /\ TR0 = FALSE /\ TF0 = FALSE /\ ET0 = FALSE /\ EX0 = FALSE /\ EA = FALSE /\ IE0 = FALSE
    /\ KEYBOARD_DATA = 1
    /\ pc = "main" /\ initRet = "none" /\ sendRet = "none"
    /\ nKey = 0 /\ ch = 0
    /\ P1 = 255 /\ SET_KEY_DATA_RDY = 1 /\ KEY_DATA_RDY = 1
    /\ m_bShiftFlags = 0 /\ ckPos = "top" /\ pauseIdx = 0
    /\ kbPos = 0 /\ kbKind = "idle" /\ nFrames = 0 /\ nEdges = 0
    /\ nFed = 0 /\ shift0 = 0
    /\ got = <<>> /\ overrun = FALSE /\ frameStored = FALSE /\ stored = <<>>
    /\ bits = <<>> /\ asciiKey = -1
    /\ resolved = <<>> /\ sent = <<>>

\* the keyboard sends frames; the US table is linked
Init ==
    /\ PowerUp
    /\ script = <<>>
    /\ rom = -1
    /\ JP4 = -1

\* Frames of every kind, the timer expiring between frames and inside slow
\* frames.  The keyboard may stop for good at any edge.
Next ==
    \/ Main
    \/ KEYBOARD_BIT
    \/ TimerOverflow
    \/ KEYBOARD_TIMEOUT
    \/ HostRead
    \/ \E kind \in FrameKinds : KbdBegin(kind, MaxFrames)
    \/ KbdNext

Spec == Init /\ [][Next]_vars

\* The same with progress.  The program runs on: an instruction that can
\* execute does, and the interrupts, however often they come, do not starve
\* it.  A flagged and enabled interrupt is taken, a running timer overflows,
\* and the host reads every byte it is strobed.  Nothing obliges the keyboard
\* to send.
SpecLive ==
    /\ Init
    /\ [][Next]_vars
    /\ SF_vars(Main)
    /\ WF_vars(KEYBOARD_BIT)
    /\ WF_vars(TimerOverflow)
    /\ WF_vars(KEYBOARD_TIMEOUT)
    /\ WF_vars(HostRead)

\* well-formed frames only, each completed before the timer expires
NextGood ==
    \/ Main
    \/ KEYBOARD_BIT
    \/ HostRead
    \/ KbdBegin("good", MaxGoodFrames)
    \/ KbdNext

SpecGood == Init /\ [][NextGood]_vars

\* clock edges with an arbitrary data level
NextBits ==
    \/ Main
    \/ KEYBOARD_BIT
    \/ HostRead
    \/ KbdAnyEdge

SpecBits == Init /\ [][NextBits]_vars


---------------------------------------------------------------------------
(* The decoder on its own: WaitKey hands ConvertKeys the bytes of a script, *)
(* whatever frames brought them.                                            *)

Bytes == 0..255

\* the bytes a keyboard sends for Pause/Break: E1 14 77 E1 F0 14 F0 77
PauseSeq == <<225, 20, 119, 225, 240, 20, 240, 119>>

\* the Pause/Break sequence with x in place of its i-th byte
PauseWith(i, x) == [PauseSeq EXCEPT ![i] = x]

\* The scripts: the Pause/Break sequence and every sequence that follows it
\* but for one byte after the E1; every byte alone, after F0, after E0 and
\* after E0 F0; caps lock pressed twice.
Scripts ==
    {PauseWith(i, x) : i \in 2..Len(PauseSeq), x \in Bytes}
    \cup {<<x>> : x \in Bytes}
    \cup {<<240, x>> : x \in Bytes}
    \cup {<<224, x>> : x \in Bytes}
    \cup {<<224, 240, x>> : x \in Bytes}
    \cup {<<88, 88>>}

\* WaitKey returns the next byte of the script to the call ConvertKeys waits
\* in
WaitKeyReturns ==
    /\ pc = "gk_clr"
    /\ nFed < Len(script)
    /\ nKey' = script[nFed + 1]
    /\ nFed' = nFed + 1
    /\ got' = Append(got, script[nFed + 1])
    /\ pc' = "ck_disp"
    /\ UNCHANGED <<m_bKeyGet, rxvars, sfrvars, IE0, KEYBOARD_DATA, initRet,
                   sendRet, ch, P1, SET_KEY_DATA_RDY, KEY_DATA_RDY, decvars,
                   kbPos, kbKind, nFrames, nEdges, script, shift0, rom, JP4,
                   overrun, frameStored, stored, bits, asciiKey, resolved, sent>>

\* From power-up, the bytes coming from a script instead of the receiver
InitBoot ==
    /\ PowerUp
    /\ script \in Scripts
    /\ rom = -1
    /\ JP4 = -1

NextBoot ==
    \/ MainStart
    \/ InitializeKeyboard
    \/ MainIntOn
    \/ SendHost
    \/ ConvertKeysStart
    \/ WaitKeyReturns
    \/ ConvertKeysByte
    \/ HostRead

SpecBoot == InitBoot /\ [][NextBoot]_vars

\* ConvertKeys at the top of its loop, about to call WaitKey, in one of the
\* sixteen states of the modifier flags; the version byte has been sent and
\* nothing else has happened.  S holds the scripts, R the tables and J the
\* positions of the jumper.
AtLoopTop(S, R, J) ==
    /\ m_bKeyData = 0
    /\ m_abKeyBuffer = [i \in 0..(KEYBUFLEN - 1) |-> 0]
    /\ m_bKeyState = 0 /\ m_bKeyGet = 0 /\ m_bKeyPut = 0 /\ g_bKeyFlags = 0
    /\ TR0 = FALSE /\ TF0 = FALSE /\ ET0 = TRUE /\ EX0 = TRUE /\ EA = TRUE
    /\ IE0 = FALSE /\ KEYBOARD_DATA = 1
    /\ pc = "gk_clr" /\ initRet = "main_inton" /\ sendRet = "ck_init"
    /\ nKey = 0 /\ ch = KEY_VERSION + VERSION
    /\ P1 = KEY_VERSION + VERSION
    /\ SET_KEY_DATA_RDY = 1 - STROBE_ACT_LVL /\ KEY_DATA_RDY = 1
    /\ m_bShiftFlags \in 0..15 /\ shift0 = m_bShiftFlags
    /\ ckPos = "top" /\ pauseIdx = 0
    /\ kbPos = 0 /\ kbKind = "idle" /\ nFrames = 0 /\ nEdges = 0
    /\ script \in S /\ nFed = 0 /\ rom \in R /\ JP4 \in J
    /\ got = <<>> /\ overrun = FALSE /\ frameStored = FALSE /\ stored = <<>>
    /\ bits = <<>> /\ asciiKey = -1
    /\ resolved = <<KEY_VERSION + VERSION>>
    /\ sent = <<KEY_VERSION + VERSION>>

\* the US table linked, the jumper installed or removed
InitDec == AtLoopTop(Scripts, {-1}, {0, 1})

NextDec ==
    \/ WaitKeyReturns
    \/ ConvertKeysByte
    \/ SendHost
    \/ HostRead

SpecDec == InitDec /\ [][NextDec]_vars

\* One key pressed, the linked table holding any byte in its first column;
\* the jumper removed.
InitTable == AtLoopTop({<<x>> : x \in Bytes}, Bytes, {1})

\* up to the call of SendHost
NextTable ==
    \/ WaitKeyReturns
    \/ ConvertKeysByte

SpecTable == InitTable /\ [][NextTable]_vars


---------------------------------------------------------------------------
(* Well-formed traffic (SpecGood): what was sent and what was returned       *)

IsPrefix(a, b) ==
    /\ Len(a) <= Len(b)
    /\ \A i \in 1..Len(a) : a[i] = b[i]

\* frames whose eleven edges the handler has all served
Delivered == nFrames - (IF kbPos # 0 \/ IE0 THEN 1 ELSE 0)

\* their bytes, in the order sent
Transmitted == [i \in 1..Delivered |-> TxByte(i)]

\* delivered bytes that GetKey has not fetched
Unread == Delivered - Len(got) - (IF pc = "gk_ret" THEN 1 ELSE 0)

\* C1 as stated: whatever the interleaving of GetKey with the clock
\* interrupts, GetKey returns the transmitted bytes in order, none lost and
\* none duplicated: what it has returned is a prefix of what was transmitted,
\* and when it finds the buffer empty it has returned all of it.
C1_ExactUnderAnyInterleaving ==
    /\ IsPrefix(got, Transmitted)
    /\ pc = "gk_empty" => got = Transmitted

\* C1 amended: the same, as long as no frame has completed while the buffer
\* held KEYBUFLEN-1 unread bytes.
C1_ExactWhileRoom ==
    ~overrun => C1_ExactUnderAnyInterleaving

\* C1 witness: sixteen and more frames were received and returned, so the
\* cursors have gone round the ring, and GetKey has just found the buffer
\* empty.
C1_Witness ==
    /\ ~overrun
    /\ pc = "gk_empty"
    /\ Len(got) >= KEYBUFLEN
    /\ got = Transmitted

\* C2: when the handler accepts a stop bit (and calls PutKey) while the buffer
\* holds KEYBUFLEN-1 unread bytes, Overflow is set and the cursors and the
\* buffer stay as they are.
C2_FullBufferRejects ==
    [][(IE0 /\ ~IE0' /\ StopOnFull) =>
         /\ TestBit(g_bKeyFlags', m_fKeyOverflow)
         /\ m_bKeyPut' = m_bKeyPut
         /\ m_bKeyGet' = m_bKeyGet
         /\ m_abKeyBuffer' = m_abKeyBuffer]_vars

\* C3: once the program runs, the cursors are equal exactly when no unread
\* byte is held, and never more than KEYBUFLEN-1 unread bytes are held.
C3_CursorsUnambiguous ==
    EA => /\ (m_bKeyGet = m_bKeyPut) <=> (Unread = 0)
          /\ Unread <= KEYBUFLEN - 1

---------------------------------------------------------------------------
(* Frames of every kind (Spec, SpecBits): what each handler does             *)

\* the INT0 handler runs in this step
BitStep == IE0 /\ ~IE0'

\* the timer 0 handler runs in this step
TimeoutStep == TF0 /\ ~TF0' /\ IE0' = IE0

\* nothing reaches the ring in this step
NothingStored ==
    /\ m_bKeyPut' = m_bKeyPut
    /\ m_abKeyBuffer' = m_abKeyBuffer

ErrorFlags == {m_fKeyOverflow, m_fKeyParity, m_fKeyFraming, m_fKeyTimeout}

\* C4: when the handler samples the stop bit (state 10) and finds it 0, it
\* sets Framing and goes to state 11, and PutKey is not called: the cursors
\* and the ring stay as they are, so GetKey cannot return the frame's byte.
C4_StopBitLowRejected ==
    [][(BitStep /\ m_bKeyState = 10 /\ KEYBOARD_DATA = 0) =>
         /\ TestBit(g_bKeyFlags', m_fKeyFraming)
         /\ m_bKeyState' = STATE_ERROR
         /\ NothingStored
         /\ m_bKeyGet' = m_bKeyGet
         /\ frameStored' = frameStored]_vars

\* C4 witness: the first frame came with its stop bit low and all its eleven
\* edges were served in turn (no timeout, no parity error, no
\* reinitialization, the data byte shifted in): the receiver sits in state 11
\* with Framing set and nothing stored.
C4_Witness ==
    /\ nFrames = 1 /\ kbPos = 0 /\ ~IE0
    /\ initRet = "main_inton"
    /\ g_bKeyFlags = Pow2(m_fKeyFraming)
    /\ m_bKeyData = TxByte(1)
    /\ m_bKeyState = STATE_ERROR
    /\ m_bKeyPut = m_bKeyGet
    /\ ~frameStored

\* C5: when the handler samples the parity bit (state 9), it goes on to state
\* 10 with the flags as they are exactly when the eight data bits and the
\* parity bit hold an odd number of 1s; otherwise it sets Parity and goes to
\* state 11.  Either way nothing is stored.
C5_OddParityDecides ==
    [][(BitStep /\ m_bKeyState = 9) =>
         LET odd == (Ones(m_bKeyData) + KEYBOARD_DATA) % 2 = 1
         IN  /\ odd => /\ m_bKeyState' = 10
                       /\ g_bKeyFlags' = g_bKeyFlags
             /\ ~odd => /\ m_bKeyState' = STATE_ERROR
                        /\ TestBit(g_bKeyFlags', m_fKeyParity)
             /\ (m_bKeyState' = 10) <=> odd
             /\ NothingStored]_vars

\* C5 witness: the data byte 0xA5 (four 1s) came with parity bit 1 and the
\* receiver went on to the stop bit.
C5_Witness ==
    /\ m_bKeyState = 10 /\ m_bKeyData = 165
    /\ KEYBOARD_DATA = 1 /\ ~IE0
    /\ ~TestBit(g_bKeyFlags, m_fKeyParity)

C7_ErrorFlagsSticky ==
    [][pc # "ik_flags" =>
         \A f \in ErrorFlags :
            TestBit(g_bKeyFlags, f) => TestBit(g_bKeyFlags', f)]_vars

\* C7 witness: the second frame was received and stored after a timeout was
\* flagged, its stop bit has just been accepted, and Timeout is still set.
C7_Witness ==
    /\ nFrames = 2 /\ kbPos = 0 /\ ~IE0
    /\ TestBit(g_bKeyFlags, m_fKeyTimeout)
    /\ m_bKeyState = 0
    /\ frameStored
    /\ m_bKeyData = TxByte(2)
    /\ m_abKeyBuffer[m_bKeyPut] = TxByte(2)

\* C8: in state 11 a clock edge changes nothing of the receiver (state,
\* flags, data byte, ring, timer), and the receiver leaves state 11 only by a
\* run of KEYBOARD_TIMEOUT or by the store to m_bKeyState in
\* InitializeKeyboard.
C8_ErrorStateSink ==
    [][/\ (BitStep /\ m_bKeyState = STATE_ERROR) =>
            /\ UNCHANGED <<m_bKeyState, m_bKeyData, g_bKeyFlags, TR0, TF0>>
            /\ NothingStored
       /\ (m_bKeyState = STATE_ERROR /\ m_bKeyState' # STATE_ERROR) =>
            /\ m_bKeyState' = 0
            /\ TimeoutStep \/ pc = "ik_state"]_vars

\* C8 witness: the first frame came with a wrong parity bit; its stop bit
\* edge was served in state 11 and left the receiver there.
C8_Witness ==
    /\ nFrames = 1 /\ kbPos = 0 /\ ~IE0
    /\ initRet = "main_inton"
    /\ g_bKeyFlags = Pow2(m_fKeyParity) + Pow2(m_fKeyBusy)
    /\ m_bKeyData = TxByte(1)
    /\ m_bKeyState = STATE_ERROR
    /\ m_bKeyPut = m_bKeyGet

\* C9: WaitKey calls InitializeKeyboard only after GetKey found the buffer
\* empty, and exactly when one of Overflow, Parity, Framing, Timeout is set
\* then (Busy alone does not count); the stores of InitializeKeyboard put
\* both cursors, the state and the flag byte to 0; and after it WaitKey polls
\* GetKey again without returning anything.
C9_WaitKeyReinit ==
    [][/\ (pc' = "wk_flags" /\ pc # "wk_flags") =>
            pc = "gk_empty" /\ nKey' = -1
       /\ (pc' = "ik_get" /\ pc # "ik_get") =>
            \/ pc = "main"
            \/ /\ pc = "wk_flags" /\ nKey = -1
               /\ \E f \in ErrorFlags : TestBit(g_bKeyFlags, f)
       /\ (pc = "wk_flags" /\ pc' # "wk_flags") =>
            IF \E f \in ErrorFlags : TestBit(g_bKeyFlags, f)
            THEN pc' = "ik_get" /\ initRet' = "gk_clr"
            ELSE pc' = "gk_clr"
       /\ (pc = "ik_get" /\ pc' # pc) => m_bKeyGet' = 0
       /\ (pc = "ik_put" /\ pc' # pc) => m_bKeyPut' = 0
       /\ (pc = "ik_state" /\ pc' # pc) => m_bKeyState' = 0
       /\ (pc = "ik_flags" /\ pc' # pc) => g_bKeyFlags' = 0
       /\ (pc = "ik_ex0" /\ pc' # pc /\ initRet = "gk_clr") =>
            pc' = "gk_clr" /\ got' = got /\ nKey' = -1]_vars

\* C9 witness: WaitKey has reinitialized the receiver after an error and is
\* about to poll GetKey again, with the cursors, the state and the flags 0.
C9_Witness ==
    /\ pc = "gk_clr" /\ initRet = "gk_clr" /\ nKey = -1
    /\ m_bKeyGet = 0 /\ m_bKeyPut = 0
    /\ m_bKeyState = 0 /\ g_bKeyFlags = 0
    /\ nFrames >= 1

---------------------------------------------------------------------------
(* Recovery (SpecLive)                                                       *)

\* an error is flagged
ErrorFlagged ==
    EA /\ \E f \in ErrorFlags : TestBit(g_bKeyFlags, f)

\* the receiver is idle with no error flagged, and the program is not in the
\* middle of InitializeKeyboard
Recovered ==
    /\ EA
    /\ \A f \in ErrorFlags : ~TestBit(g_bKeyFlags, f)
    /\ m_bKeyState = 0
    /\ pc \notin {"ik_get", "ik_put", "ik_state", "ik_flags", "ik_tr0",
                  "ik_et0", "ik_ex0"}

\* C10: whenever an error is flagged, and the host reads every byte and the
\* keyboard stops sending in the end, the program comes to a state after
\* InitializeKeyboard in which no error is flagged and the receiver is idle,
\* ready for the start bit of a next frame.
C10_RecoveryGuaranteed == ErrorFlagged ~> Recovered


---------------------------------------------------------------------------
(* The handshake with the host.                                             *)

StrobeAsserted == SET_KEY_DATA_RDY = STROBE_ACT_LVL

InSendHost == pc \in {"sh_p1", "sh_strobe", "sh_wait", "sh_done"}

\* C11: SendHost asserts the strobe only with its byte already on the data
\* bus; it deasserts the strobe, and it returns, only with the ready line
\* back at its idle level; and for as long as the host leaves the ready line
\* active, SendHost stays in its wait with the strobe asserted.
C11_StrobeHeldUntilAcknowledged ==
    [][/\ (~StrobeAsserted /\ StrobeAsserted') =>
             (pc = "sh_strobe" /\ P1 = ch /\ P1' = P1)
       /\ (StrobeAsserted /\ ~StrobeAsserted') => KEY_DATA_RDY = 1
       /\ (InSendHost /\ ~InSendHost') =>
             (KEY_DATA_RDY = 1 /\ pc' = sendRet /\ ~StrobeAsserted')
       /\ (pc = "sh_wait" /\ KEY_DATA_RDY = 0 /\ KEY_DATA_RDY' = 0) =>
             (pc' = "sh_wait" /\ StrobeAsserted /\ StrobeAsserted')]_vars

\* the code of a key is on the bus, strobed, and the host has not read it
C11_Witness ==
    /\ pc = "sh_wait"
    /\ KEY_DATA_RDY = 0
    /\ StrobeAsserted
    /\ Len(sent) = 2
    /\ P1 = ch

\* the code handed to SendHost and not yet strobed
Pending == IF pc \in {"sh_p1", "sh_strobe"} THEN <<ch>> ELSE <<>>

\* C12: the bytes strobed to the host are, in order, the codes handed to
\* SendHost, with at most the last one still to be strobed; the data bus
\* does not change while the strobe is asserted; and GetKey returns no scan
\* code while SendHost runs or the ready line shows an unread byte.
C12_OneByteInFlight ==
    /\ [](resolved = sent \o Pending)
    /\ [][/\ StrobeAsserted => P1' = P1
          /\ got' # got => (~InSendHost /\ KEY_DATA_RDY = 1)
          /\ sent' # sent => (KEY_DATA_RDY = 1 /\ sent' = Append(sent, ch))
         ]_vars

\* the code of a second key is strobed and unread while further scan codes
\* wait in the buffer
C12_Witness ==
    /\ pc = "sh_wait"
    /\ KEY_DATA_RDY = 0
    /\ StrobeAsserted
    /\ Len(sent) = 3
    /\ m_bKeyGet # m_bKeyPut

---------------------------------------------------------------------------
(* The decoder.                                                             *)

\* the script has been decoded to its end and every code delivered
ScriptDone == nFed = Len(script) /\ pc = "gk_clr"

\* C13: the first byte strobed to the host is KEY_VERSION|VERSION, no later
\* byte and no later argument of SendHost equals it, and WaitKey returns no
\* scan code to the decoder before the host has acknowledged it.
C13_VersionFirstAndOnce ==
    /\ sent # <<>> => sent[1] = KEY_VERSION + VERSION
    /\ \A i \in 2..Len(sent) : sent[i] # KEY_VERSION + VERSION
    /\ resolved # <<>> => resolved[1] = KEY_VERSION + VERSION
    /\ \A i \in 2..Len(resolved) : resolved[i] # KEY_VERSION + VERSION
    /\ (got # <<>> \/ pc \in {"ck_init", "gk_clr", "ck_disp"}) =>
          /\ Len(sent) >= 1
          /\ Len(sent) = 1 => KEY_DATA_RDY = 1

\* F1 has been pressed after power-up and its code delivered after the
\* version byte
C13_Witness ==
    /\ ScriptDone
    /\ script = <<5>>
    /\ sent = <<KEY_VERSION + VERSION, KEY_F1>>
    /\ KEY_DATA_RDY = 1

\* the codes handed to SendHost since the script began
Emitted == Tail(resolved)

\* C14: fed E1 14 77 E1 F0 14 F0 77 at the top of its loop, the decoder hands
\* nothing to SendHost for the first seven bytes, hands it KEY_BREAK on the
\* eighth and nothing else, and is back at the top of the loop with exactly
\* KEY_BREAK delivered.
C14_PauseEmitsBreak ==
    script = PauseSeq =>
       /\ Emitted = IF nFed = 8 /\ pc # "ck_disp" THEN <<KEY_BREAK>> ELSE <<>>
       /\ ScriptDone =>
             /\ sent = <<KEY_VERSION + VERSION, KEY_BREAK>>
             /\ ckPos = "top"

\* the whole sequence decoded with both shifts, control and caps lock on
C14_Witness ==
    /\ script = PauseSeq
    /\ ScriptDone
    /\ shift0 = 15
    /\ sent = <<KEY_VERSION + VERSION, KEY_BREAK>>

\* the script is the Pause/Break sequence but for one byte after its E1
OneByteOff ==
    /\ Len(script) = 8
    /\ script[1] = 225
    /\ Cardinality({i \in 2..8 : script[i] # PauseSeq[i]}) = 1

\* C15: fed a sequence that is E1 14 77 E1 F0 14 F0 77 but for one byte after
\* the E1, the decoder hands nothing to SendHost, up to the last byte.
C15_DeviationEmitsNothing == OneByteOff => Emitted = <<>>

\* C16: fed E0 75, the decoder hands SendHost KEY_UP on the second byte and
\* nothing else; fed E0 F0 75, it hands SendHost nothing; in both cases,
\* whatever the modifier flags were, they stay as they were.
C16_UpArrow ==
    /\ script = <<224, 117>> =>
          /\ Emitted = IF nFed = 2 /\ pc # "ck_disp" THEN <<KEY_UP>> ELSE <<>>
          /\ m_bShiftFlags = shift0
          /\ ScriptDone => (sent = <<KEY_VERSION + VERSION, KEY_UP>>
                            /\ ckPos = "top")
    /\ script = <<224, 240, 117>> =>
          /\ Emitted = <<>>
          /\ m_bShiftFlags = shift0
          /\ ScriptDone => ckPos = "top"

\* up arrow pressed with left shift down and caps lock on
C16_Witness ==
    /\ script = <<224, 117>>
    /\ ScriptDone
    /\ shift0 = 9
    /\ m_bShiftFlags = 9
    /\ sent = <<KEY_VERSION + VERSION, KEY_UP>>

\* C17: with the jumper removed (no swap), a press of 58 inverts CapsLockOn
\* and leaves the other flags, so that a second press restores the flags; a
\* release F0 58 leaves every flag as it was; none of them hands anything to
\* SendHost.
C17_CapsLockToggles ==
    (JP4 = 1 /\ pc # "ck_disp") =>
       /\ (script \in {<<88>>, <<88, 88>>} /\ nFed = 1) =>
             m_bShiftFlags =
                PutBit(shift0, m_fCapsLockOn, ~TestBit(shift0, m_fCapsLockOn))
       /\ (script = <<88, 88>> /\ nFed = 2) => m_bShiftFlags = shift0
       /\ script = <<240, 88>> => m_bShiftFlags = shift0
       /\ script \in {<<88>>, <<88, 88>>, <<240, 88>>} => Emitted = <<>>

\* caps lock pressed twice with control down: on after the first press
C17_Witness ==
    /\ JP4 = 1
    /\ script = <<88, 88>>
    /\ nFed = 1
    /\ pc = "gk_clr"
    /\ shift0 = 4
    /\ m_bShiftFlags = 12

\* a press of bKey at the top of the loop gets as far as DoASCII
ReachesASCII(bKey, swap) ==
    /\ ~DoSpecial(bKey)
    /\ bKey \notin {224, 225, 240, 119, 126}
    /\ ~DoShift(bKey, FALSE, FALSE, 0, swap).handled
    /\ FunctionCode(bKey) = NoSend
    /\ ~DoKeypadHandles(bKey)

\* a single key that gets as far as DoASCII has been decoded
PressResolved ==
    /\ Len(script) = 1
    /\ nFed = 1
    /\ pc # "ck_disp"
    /\ ReachesASCII(script[1], JP4 = 0)

\* the table entry of the claim: column idx, bit 0 of idx being either shift
\* and bit 1 control, of the table that holds rom + 64 c in column c
ClaimedEntry ==
    LET idx == (IF shift0 % 2 = 1 \/ (shift0 \div 2) % 2 = 1 THEN 1 ELSE 0)
               + (IF (shift0 \div 4) % 2 = 1 THEN 2 ELSE 0)
    IN  (rom + 64 * idx) % 256

CapsLockWas == (shift0 \div 8) % 2 = 1

\* the upper case of a lower case letter under caps lock, else the byte
Capitalized(c) == IF CapsLockWas /\ c \in 97..122 THEN c - 32 ELSE c

\* C18 as stated: a pressed key that reaches ASCII resolution emits nothing
\* if its table entry is zero, and else the entry, in upper case if caps lock
\* is on and the entry is a lower case letter.
C18_EntryEmittedUnchanged ==
    PressResolved =>
       Emitted = IF ClaimedEntry = 0 THEN <<>>
                 ELSE <<Capitalized(ClaimedEntry)>>

\* C18, amended: a pressed key that reaches ASCII resolution emits nothing if
\* its table entry is zero, and else the low seven bits of the entry, in
\* upper case if caps lock is on and they are a lower case letter; the
\* modifier flags stay as they were.  With 'a' in the table, 1C gives 'a'
\* and, with caps lock on, 'A'.
C18_EntryEmittedMasked ==
    PressResolved =>
       /\ Emitted = IF ClaimedEntry = 0 THEN <<>>
                    ELSE <<Capitalized(ClaimedEntry % 128)>>
       /\ m_bShiftFlags = shift0
       /\ (script = <<28>> /\ rom = 97 /\ shift0 = 0) => Emitted = <<97>>
       /\ (script = <<28>> /\ rom = 97 /\ shift0 = 8) => Emitted = <<65>>

\* 1C pressed with control down and caps lock on, the table holding 'a' with
\* bit 7 set in the control column: 'A' is handed to SendHost
C18_Witness ==
    /\ PressResolved
    /\ script = <<28>>
    /\ shift0 = 12
    /\ ClaimedEntry = 225
    /\ resolved = <<KEY_VERSION + VERSION, 65>>
    /\ pc = "sh_p1"

\* C19: a status byte FA, AA, EE, FE, 00 or FF met at the top of the loop
\* hands nothing to SendHost and leaves the modifier flags as they were, and
\* the decoder is back at the top of the loop having taken that byte only.
C19_StatusByteDropped ==
    (Len(script) = 1 /\ script[1] \in {250, 170, 238, 254, 0, 255}) =>
       /\ Emitted = <<>>
       /\ m_bShiftFlags = shift0
       /\ (nFed = 1 /\ pc # "ck_disp") =>
             /\ pc = "gk_clr"
             /\ ckPos = "top"
             /\ pauseIdx = 0
             /\ got = script

\* the keyboard's ACK has been dropped with every modifier flag set
C19_Witness ==
    /\ script = <<250>>
    /\ ScriptDone
    /\ got = <<250>>
    /\ shift0 = 15
    /\ m_bShiftFlags = 15
    /\ sent = <<KEY_VERSION + VERSION>>

\* C20: fed F0 x or E0 F0 x, x being any byte, the decoder hands nothing to
\* SendHost, whatever the modifier flags.
C20_ReleaseEmitsNothing ==
    /\ (Len(script) = 2 /\ script[1] = 240) => Emitted = <<>>
    /\ (Len(script) = 3 /\ script[1] = 224 /\ script[2] = 240) =>
          Emitted = <<>>

\* the release of the a key has been decoded with left shift down
C20_Witness ==
    /\ script = <<240, 28>>
    /\ ScriptDone
    /\ shift0 = 1
    /\ sent = <<KEY_VERSION + VERSION>>

\* the scripts of the right control key and of both alt keys, pressed and
\* released
IgnoredKeyScripts ==
    {<<224, 20>>, <<224, 240, 20>>, <<17>>, <<240, 17>>, <<224, 17>>,
     <<224, 240, 17>>}

\* C21: fed E0 14, E0 F0 14, 11, F0 11, E0 11 or E0 F0 11, with the jumper
\* installed or removed, the decoder hands nothing to SendHost and leaves
\* every modifier flag as it was.
C21_RightControlAndAltIgnored ==
    script \in IgnoredKeyScripts =>
       (Emitted = <<>> /\ m_bShiftFlags = shift0)

---------------------------------------------------------------------------
(* GetKey and the receiver.                                                 *)

\* GetKey is between its CLR EX0 and its SETB EX0
InGetKey == pc \in {"gk_cmp", "gk_fetch", "gk_ret", "gk_empty"}

\* C22: from GetKey's comparison of the cursors to its return the keyboard
\* interrupt is masked and no run of the INT0 handler takes place, so that
\* the put cursor and the ring stay as compared; and GetKey returns, to the
\* decoder with a byte or to WaitKey with -1, with the interrupt enabled.
C22_GetKeyCriticalSection ==
    [][/\ InGetKey => ~EX0
       /\ BitStep => ~InGetKey
       /\ InGetKey =>
             (m_bKeyPut' = m_bKeyPut /\ m_abKeyBuffer' = m_abKeyBuffer)
       /\ (InGetKey /\ ~InGetKey') =>
             (EX0' /\ pc \in {"gk_ret", "gk_empty"}
                   /\ pc' \in {"ck_disp", "wk_flags"})]_vars

\* a clock edge is waiting while GetKey, having found a byte, is about to
\* advance the get cursor
C22_Witness ==
    /\ pc = "gk_fetch"
    /\ IE0
    /\ ~EX0
    /\ EA
    /\ m_bKeyGet # m_bKeyPut

\* C23: GetKey finding the cursors equal returns -1 and leaves cursors, ring
\* and flags as they are; finding them different it returns a value in
\* 0..255, the stored byte zero filled, so that -1 is never a byte.
C23_EmptySentinel ==
    [][/\ (pc = "gk_cmp" /\ pc' # pc) =>
             /\ pc' = IF m_bKeyGet = m_bKeyPut THEN "gk_empty" ELSE "gk_fetch"
             /\ UNCHANGED <<m_bKeyGet, m_bKeyPut, m_abKeyBuffer, g_bKeyFlags>>
       /\ (pc = "gk_empty" /\ pc' # pc) =>
             /\ nKey' = -1
             /\ nKey' \notin Bytes
             /\ m_bKeyGet = m_bKeyPut
             /\ got' = got
             /\ UNCHANGED <<m_bKeyGet, m_bKeyPut, m_abKeyBuffer, g_bKeyFlags>>
       /\ (pc = "gk_ret" /\ pc' # pc) =>
             /\ nKey' = m_abKeyBuffer[m_bKeyGet]
             /\ nKey' \in Bytes
             /\ got' = Append(got, nKey')]_vars

\* the byte FF has been returned as 255, and the next GetKey has found the
\* buffer empty and returned -1
C23_Witness ==
    /\ pc = "wk_flags"
    /\ nKey = -1
    /\ got = <<255>>
    /\ m_bKeyGet = m_bKeyPut

\* the byte of which b[1] is bit 0, b[2] bit 1, ... b[8] bit 7
LsbFirst(b) ==
    b[1] + 2 * b[2] + 4 * b[3] + 8 * b[4] + 16 * b[5] + 32 * b[6]
    + 64 * b[7] + 128 * b[8]

\* C24: when the handler enters the parity state, eight data levels have
\* been sampled since the start bit was accepted, and the accumulator holds
\* the byte of which the first level is bit 0 and the last bit 7, whatever
\* it held before the start bit.
C24_LsbFirstAssembly ==
    [][(BitStep /\ m_bKeyState = 8) =>
          /\ m_bKeyState' = 9
          /\ Len(bits') = 8
          /\ m_bKeyData' = LsbFirst(bits')]_vars

\* the levels 0 0 1 1 1 0 0 0 have made 1C in an accumulator that held FF
\* before the start bit
C24_Witness ==
    /\ m_bKeyState = 9
    /\ bits = <<0, 0, 1, 1, 1, 0, 0, 0>>
    /\ m_bKeyData = 28
    /\ m_abKeyBuffer[0] = 255

\* C25: a run of the handler in state 0 with the data line at 1 sets Framing
\* and goes to state 11, leaving Busy, the other flags, the timer and the
\* accumulator as they are and storing nothing; with the data line at 0 it
\* sets Busy, zeroes the accumulator, starts the timer with its overflow
\* flag cleared and goes to state 1.
C25_IdleEdge ==
    [][/\ (BitStep /\ m_bKeyState = 0 /\ KEYBOARD_DATA = 1) =>
             /\ g_bKeyFlags' = SetBit(g_bKeyFlags, m_fKeyFraming)
             /\ m_bKeyState' = STATE_ERROR
             /\ TR0' = TR0 /\ TF0' = TF0
             /\ m_bKeyData' = m_bKeyData
             /\ NothingStored
       /\ (BitStep /\ m_bKeyState = 0 /\ KEYBOARD_DATA = 0) =>
             /\ g_bKeyFlags' = SetBit(g_bKeyFlags, m_fKeyBusy)
             /\ m_bKeyData' = 0
             /\ TR0' /\ ~TF0'
             /\ m_bKeyState' = 1
             /\ NothingStored]_vars

\* the first clock edge after power-up came with the data line high: state
\* 11, Framing alone, the timer stopped, the accumulator as power-up left it
C25_Witness ==
    /\ EA
    /\ m_bKeyState = STATE_ERROR
    /\ g_bKeyFlags = Pow2(m_fKeyFraming)
    /\ ~TR0 /\ ~TF0
    /\ nFrames = 1 /\ kbPos = 0 /\ ~IE0
    /\ m_bKeyData = 255
    /\ initRet = "main_inton"


---------------------------------------------------------------------------
(* The exchange of CAPS LOCK and CONTROL.                                   *)

SwapEnabled == JP4 = 0

ControlSet == PutBit(shift0, m_fControlDown, TRUE)

ControlCleared == PutBit(shift0, m_fControlDown, FALSE)

CapsLockToggled ==
    PutBit(shift0, m_fCapsLockOn, ~TestBit(shift0, m_fCapsLockOn))

\* what the modifier step does with 58 and 14 when they are exchanged:
\* 58 follows press and release as Control, 14 toggles CapsLockOn on press,
\* and nothing is handed to SendHost
SwapModifierEffects ==
    /\ script = <<88>> => m_bShiftFlags = ControlSet
    /\ script = <<240, 88>> => m_bShiftFlags = ControlCleared
    /\ script = <<20>> => m_bShiftFlags = CapsLockToggled
    /\ script = <<240, 20>> => m_bShiftFlags = shift0
    /\ Emitted = <<>>

\* C26 as stated: with the exchange enabled, 58 sets and clears ControlDown,
\* 14 toggles CapsLockOn on press, and whenever one of these events gets as
\* far as ASCII resolution, the code resolved is the exchanged one.
C26_ExchangedCodeReachesASCII ==
    (SwapEnabled /\ ScriptDone
       /\ script \in {<<88>>, <<240, 88>>, <<20>>, <<240, 20>>}) =>
       /\ SwapModifierEffects
       /\ asciiKey # -1 => asciiKey = 108 - script[Len(script)]

\* C26: with the exchange enabled, 58 sets and clears ControlDown and 14
\* toggles CapsLockOn on press, neither emitting anything; the exchange is
\* made inside the modifier step only: the one event of the four that the
\* modifier step does not consume, the release of 14, goes on to ASCII
\* resolution under the code received, 14.
C26_ExchangeInModifierStepOnly ==
    (SwapEnabled /\ ScriptDone
       /\ script \in {<<88>>, <<240, 88>>, <<20>>, <<240, 20>>}) =>
       /\ SwapModifierEffects
       /\ asciiKey = IF script = <<240, 20>> THEN 20 ELSE -1

\* the key marked Ctrl released with the exchange enabled and every flag set
C26_Witness ==
    /\ SwapEnabled /\ ScriptDone
    /\ script = <<240, 20>>
    /\ shift0 = 15 /\ m_bShiftFlags = 15
    /\ asciiKey = 20
    /\ Emitted = <<>>


---------------------------------------------------------------------------
(* Keys with codes of their own.                                            *)

SharedCodes ==
    {<<112, KEY_KP0, KEY_INSERT>>, <<105, KEY_KP1, KEY_END>>,
     <<114, KEY_KP2, KEY_DOWN>>,   <<122, KEY_KP3, KEY_PGDN>>,
     <<107, KEY_KP4, KEY_LEFT>>,   <<116, KEY_KP6, KEY_RIGHT>>,
     <<108, KEY_KP7, KEY_HOME>>,   <<117, KEY_KP8, KEY_UP>>,
     <<125, KEY_KP9, KEY_PGUP>>,   <<113, KEY_KPDOT, KEY_DELETE>>}

\* C28: for each of the ten shared codes, whatever the modifier flags and the
\* jumper, the code alone hands exactly its keypad code to SendHost and the
\* code after E0 exactly its arrow or editing code, the flags staying as
\* they were.
C28_PrefixDecidesKeypadOrEditing ==
    ScriptDone =>
       \A t \in SharedCodes :
          /\ script = <<t[1]>> =>
                (Emitted = <<t[2]>> /\ m_bShiftFlags = shift0)
          /\ script = <<224, t[1]>> =>
                (Emitted = <<t[3]>> /\ m_bShiftFlags = shift0)

\* Page Up on the editing pad, with shift and caps lock on: 9A, not A9
C28_Witness ==
    /\ ScriptDone /\ script = <<224, 125>>
    /\ shift0 = 9 /\ m_bShiftFlags = 9
    /\ Emitted = <<154>> /\ sent = <<196, 154>>


---------------------------------------------------------------------------
(* Sequences that break off.                                                *)

\* the codes DoExtended has a case for
ExtendedKnown ==
    {117, 114, 116, 107, 105, 108, 112, 113, 122, 125, 90, 74, 47,
     17, 20, 31, 39, 18, 124}

\* the script is an E0 or E1 sequence and its p-th byte is the first one the
\* sequence does not allow
BreaksOffAt(p) ==
    \/ /\ Len(script) = 2 /\ script[1] = 224 /\ p = 2
       /\ script[2] \notin ExtendedKnown \cup {240}
    \/ /\ Len(script) = 3 /\ script[1] = 224 /\ script[2] = 240 /\ p = 3
       /\ script[3] \notin ExtendedKnown
    \/ /\ OneByteOff /\ p \in 2..8
       /\ script[p] # PauseSeq[p]

\* C29: when the decoder has taken the byte that breaks an E0 or E1 sequence
\* off, it is back at the top of its loop waiting for the next byte, it has
\* handed nothing to SendHost, the modifier flags are as they were before the
\* sequence and no error flag of the receiver is set; the byte after a broken
\* E1 sequence is then decoded as a key of its own (77 as Num Lock).
C29_BrokenSequenceIsLocal ==
    /\ \A p \in 2..8 :
          (BreaksOffAt(p) /\ nFed = p /\ pc # "ck_disp") =>
             /\ pc = "gk_clr"
             /\ ckPos = "top" /\ pauseIdx = 0
             /\ Emitted = <<>>
             /\ m_bShiftFlags = shift0
             /\ BitAnd(g_bKeyFlags, KEYBOARD_ERROR_BITS) = 0
    /\ (BreaksOffAt(7) /\ ScriptDone) =>
          (Emitted = <<KEY_NUMLOCK>> /\ m_bShiftFlags = shift0)

\* E0 59: no such extended key.  The byte is dropped with shift and control
\* down, and the decoder waits at the top of its loop
C29_Witness ==
    /\ script = <<224, 89>> /\ nFed = 2 /\ pc = "gk_clr"
    /\ ckPos = "top"
    /\ shift0 = 5 /\ m_bShiftFlags = 5
    /\ resolved = <<196>> /\ g_bKeyFlags = 0


---------------------------------------------------------------------------
(* Who writes the modifier flags.                                           *)

\* ConvertKeys is about to decode a key event, not one that follows E0, of
\* the shift keys (12, 59), the control key or the caps lock key (14, 58)
ModifierKeyEvent ==
    /\ pc = "ck_disp"
    /\ ckPos \in {"top", "rel"}
    /\ nKey \in {18, 89, 20, 88}

\* C30: m_bShiftFlags is zeroed when ConvertKeys starts; any other step that
\* changes it is the decoding of a key event of left shift, right shift,
\* control or caps lock.  No status byte, function, keypad or extended key,
\* Pause/Break sequence or ASCII key, no interrupt handler and no
\* InitializeKeyboard changes it.
C30_OnlyModifierStepWrites ==
    [][/\ pc = "ck_init" => m_bShiftFlags' = 0
       /\ (m_bShiftFlags' # m_bShiftFlags /\ pc # "ck_init") =>
             ModifierKeyEvent]_vars


---------------------------------------------------------------------------
(* Reinitialization and the bytes in the buffer.                            *)

\* C31: frames of every kind, timeouts and InitializeKeyboard interleaved
\* with the interrupts in every way: GetKey returns the bytes PutKey stored,
\* in order, and when it finds the buffer empty it has returned every one of
\* them.
C31_ReinitLosesNothing ==
    /\ IsPrefix(got, stored)
    /\ pc = "gk_empty" => got = stored


---------------------------------------------------------------------------
(* When the timeout handler runs.                                           *)

\* C32: every run of KEYBOARD_TIMEOUT finds Busy set, that is, a start bit
\* was accepted and since then no stop bit was accepted, no timeout was
\* served and InitializeKeyboard did not clear the flags.
C32_TimeoutOnlyWhenBusy ==
    [][TimeoutStep => TestBit(g_bKeyFlags, m_fKeyBusy)]_vars


---------------------------------------------------------------------------
(* The bounds of the scan-code table.                                       *)

\* C33: whenever DoASCII has been called, the row it read, bKey, is one of
\* the 128 rows of g_abScanCodes and the column, bShift, one of its four.
C33_TableReadInBounds ==
    asciiKey # -1 =>
       /\ asciiKey \in 0..127
       /\ ShiftIndex(m_bShiftFlags) \in 0..3


---------------------------------------------------------------------------
(* One code for one key event.                                              *)

\* the script is one pass of the decoder's loop: a byte alone or after F0,
\* E0 or E0 F0, or the Pause/Break sequence
OnePass ==
    \/ Len(script) = 1
    \/ Len(script) = 2 /\ script[1] \in {240, 224} /\ script # <<224, 240>>
    \/ Len(script) = 3 /\ script[1] = 224 /\ script[2] = 240
    \/ script = PauseSeq

\* C34: a step of ConvertKeys hands at most one byte to SendHost, and when it
\* does the pass of the loop is over: SendHost returns to the WaitKey at the
\* top of the loop.  So a script that is one pass of the loop never has more
\* than one byte handed to SendHost.
C34_OneSendPerPass ==
    [][/\ pc = "ck_disp" =>
             \/ resolved' = resolved
             \/ /\ Len(resolved') = Len(resolved) + 1
                /\ ckPos' = "top"
                /\ pc' = "sh_p1" /\ sendRet' = "gk_clr"
       /\ pc # "ck_disp" => resolved' = resolved
       /\ OnePass => Len(Emitted') <= 1]_vars

\* the eight bytes of Pause/Break taken, one code sent and read by the host
C34_Witness ==
    /\ script = PauseSeq /\ nFed = 8 /\ pc = "gk_clr"
    /\ got = PauseSeq
    /\ resolved = <<196, 128>> /\ sent = resolved
    /\ KEY_DATA_RDY = 1


---------------------------------------------------------------------------
(* The jump table and the ring stay in bounds.                              *)

\* C35: once main has initialized the receiver and enabled the interrupts,
\* whatever the frames, stray edges and timeouts and however the handlers
\* interleave with GetKey and InitializeKeyboard, m_bKeyState is one of the
\* twelve entries of KEYTAB and m_bKeyGet and m_bKeyPut are indices of
\* m_abKeyBuffer.
C35_StateAndCursorsInRange ==
    EA =>
       /\ m_bKeyState \in 0..11
       /\ m_bKeyGet \in 0..(KEYBUFLEN - 1)
       /\ m_bKeyPut \in 0..(KEYBUFLEN - 1)

\* a byte was stored and fetched, then a frame failed: the receiver sits in
\* its last state with both cursors moved, and an edge is waiting
C35_Witness ==
    /\ EA /\ m_bKeyState = STATE_ERROR
    /\ m_bKeyGet = 1 /\ m_bKeyPut = 1
    /\ got = <<28>>
    /\ IE0 /\ EX0

===========================================================================
